---- MODULE Spec2Model ----
(***************************************************************************)
(* Model of strip_bom/core.py: strip_bom (text), strip_bom_buffer (bytes,  *)
(* gated by a UTF-8 validity check) and strip_bom_stream (a generator over *)
(* a caller-owned binary source).                                          *)
(*                                                                         *)
(* Python values are objects on a heap (a sequence of objects; a reference *)
(* is an index into it), so that "the same instance" and "a new object"    *)
(* are distinguishable.  Bytes are integers 0..255, text is a sequence of  *)
(* code points.                                                            *)
(***************************************************************************)
EXTENDS Integers, Sequences, FiniteSets, TLC

\* ------------------------------------------------------------------ bounds
\* longest text / byte content drawn as an input
MaxLen == 6
\* largest small chunk_size drawn as an input (besides the default)
MaxChunk == 4
\* longest run of bytes after the optional BOM in the contents of two sources
\* that are consumed together
MaxTail == 2
\* longest content of a source that is pulled to its end without failures
MaxLive == 4

\* ------------------------------------------------------- program constants
\* UTF8_BOM = b'\xef\xbb\xbf'
UTF8_BOM == <<239, 187, 191>>
\* UTF8_BOM_CHAR = '\ufeff'
UTF8_BOM_CHAR == 65279
\* def strip_bom_stream(file_like, chunk_size: int = 8192)
DefaultChunkSize == 8192

\* ------------------------------------------------------------ input spaces
\* byte values the inputs are built from: 'A', the three BOM bytes
\* (0xBB and 0xBF are also continuation bytes, 0xEF a 3-byte lead)
ByteAlphabet == {65, 187, 191, 239}
\* code points the text inputs are built from: U+FEFF, 'a', 'x'
CharAlphabet == {65279, 97, 120}

SeqsUpTo(S, n) == UNION {[1..k -> S] : k \in 0..n}

Obj(t, d) == [type |-> t, data |-> d]

\* values of the wrong type handed to an operation
NonText == {Obj("bytes", <<>>), Obj("bytes", UTF8_BOM), Obj("int", <<>>), Obj("NoneType", <<>>)}
NonBytes == {Obj("str", <<>>), Obj("str", <<UTF8_BOM_CHAR>>), Obj("int", <<>>), Obj("NoneType", <<>>)}
NonFileLike == {Obj("str", <<97>>), Obj("bytes", UTF8_BOM), Obj("int", <<>>), Obj("NoneType", <<>>)}

TextValues == {Obj("str", s) : s \in SeqsUpTo(CharAlphabet, MaxLen)}
ByteValues == {Obj(t, b) : t \in {"bytes", "bytearray"}, b \in SeqsUpTo(ByteAlphabet, MaxLen)}
Sources == {Obj("BytesIO", b) : b \in SeqsUpTo(ByteAlphabet, MaxLen)}

ChunkSizes == (-1 .. MaxChunk) \cup {DefaultChunkSize}

\* what file_path names in the file system: a regular file with its bytes,
\* a directory, or nothing
FileEntries ==
    {Obj("file", b) : b \in SeqsUpTo(ByteAlphabet, MaxLen)}
        \cup {Obj("directory", <<>>), Obj("missing", <<>>)}

\* mode arguments: the three supported ones and two others
Modes == {"r", "rt", "rb", "w", "x"}

Max(a, b) == IF a >= b THEN a ELSE b
Min(a, b) == IF a <= b THEN a ELSE b

\* b[i:] with a 0-based start, as Python slices a sequence
SliceFrom(s, i) == SubSeq(s, i + 1, Len(s))
\* b[:n]
SliceTo(s, n) == SubSeq(s, 1, Min(n, Len(s)))

\* ------------------------------------------------------------ strip_bom
RECURSIVE LStrip(_, _)
LStrip(s, c) == IF Len(s) > 0 /\ s[1] = c THEN LStrip(Tail(s), c) ELSE s

\* faulty variant: string.lstrip(UTF8_BOM_CHAR), every leading U+FEFF removed
strip_bom_lstrip(h, r) ==
    IF h[r].type # "str"
    THEN [heap |-> h, ret |-> 0, exc |-> "TypeError"]
    ELSE IF Len(h[r].data) > 0 /\ h[r].data[1] = UTF8_BOM_CHAR
         THEN [heap |-> Append(h, Obj("str", LStrip(h[r].data, UTF8_BOM_CHAR))),
               ret |-> Len(h) + 1, exc |-> "none"]
         ELSE [heap |-> h, ret |-> r, exc |-> "none"]

\* faulty variant: the comparison with UTF8_BOM_CHAR is missing ("if string:")
strip_bom_any_first(h, r) ==
    IF h[r].type # "str"
    THEN [heap |-> h, ret |-> 0, exc |-> "TypeError"]
    ELSE IF Len(h[r].data) > 0
         THEN [heap |-> Append(h, Obj("str", SliceFrom(h[r].data, 1))),
               ret |-> Len(h) + 1, exc |-> "none"]
         ELSE [heap |-> h, ret |-> r, exc |-> "none"]

\* strip_bom(string): h is the heap, r the reference of the argument.
\* Returns the heap after the call, the returned reference and the
\* exception raised ("none" when the call returns).
strip_bom(h, r) ==
    IF h[r].type # "str"
    THEN [heap |-> h, ret |-> 0, exc |-> "TypeError"]
    ELSE IF Len(h[r].data) > 0 /\ h[r].data[1] = UTF8_BOM_CHAR
         THEN [heap |-> Append(h, Obj("str", SliceFrom(h[r].data, 1))),
               ret |-> Len(h) + 1, exc |-> "none"]
         ELSE [heap |-> h, ret |-> r, exc |-> "none"]

\* ------------------------------------------------------------ _is_utf8
IsCont(x) == x >= 128 /\ x <= 191

\* length of the well-formed UTF-8 sequence that starts at b[i], 0 if none
\* (bytes.decode('utf-8', errors='strict'): no overlong forms, no
\* surrogates, nothing above U+10FFFF, no truncated sequence)
Utf8SeqLen(b, i) ==
    LET n == Len(b)
        c == b[i]
        c1 == b[i + 1]
        c2 == b[i + 2]
        c3 == b[i + 3]
    IN  IF c < 128 THEN 1
        ELSE IF c >= 194 /\ c <= 223
             THEN IF i + 1 <= n /\ IsCont(c1) THEN 2 ELSE 0
        ELSE IF c >= 224 /\ c <= 239
             THEN IF i + 2 <= n
                     /\ IsCont(c1) /\ IsCont(c2)
                     /\ (c = 224 => c1 >= 160)
                     /\ (c = 237 => c1 <= 159)
                  THEN 3 ELSE 0
        ELSE IF c >= 240 /\ c <= 244
             THEN IF i + 3 <= n
                     /\ IsCont(c1) /\ IsCont(c2) /\ IsCont(c3)
                     /\ (c = 240 => c1 >= 144)
                     /\ (c = 244 => c1 <= 143)
                  THEN 4 ELSE 0
        ELSE 0

RECURSIVE DecodesFrom(_, _)
DecodesFrom(b, i) ==
    IF i > Len(b) THEN TRUE
    ELSE LET k == Utf8SeqLen(b, i)
         IN  IF k = 0 THEN FALSE ELSE DecodesFrom(b, i + k)

\* faulty variant: decoding with errors='ignore' never raises, so every input passes
is_utf8_errors_ignore(byte_array) == TRUE

is_utf8(byte_array) == DecodesFrom(byte_array, 1)

\* ----------------------------------------------------- strip_bom_buffer
\* faulty variant: only the first byte is compared with the BOM
\* (byte_array[:1] == UTF8_BOM[:1])
strip_bom_buffer_first_byte(h, r) ==
    IF h[r].type \notin {"bytes", "bytearray"}
    THEN [heap |-> h, ret |-> 0, exc |-> "TypeError"]
    ELSE LET conv == h[r].type = "bytearray"
             h1 == IF conv THEN Append(h, Obj("bytes", h[r].data)) ELSE h
             r1 == IF conv THEN Len(h) + 1 ELSE r
             b == h1[r1].data
         IN  IF /\ Len(b) >= Len(UTF8_BOM)
                /\ SliceTo(b, 1) = SliceTo(UTF8_BOM, 1)
                /\ is_utf8(b)
             THEN [heap |-> Append(h1, Obj("bytes", SliceFrom(b, Len(UTF8_BOM)))),
                   ret |-> Len(h1) + 1, exc |-> "none"]
             ELSE [heap |-> h1, ret |-> r1, exc |-> "none"]

\* faulty variant: the argument is always copied (bytes(bytearray(byte_array))),
\* also when it is bytes already
strip_bom_buffer_copies(h, r) ==
    IF h[r].type \notin {"bytes", "bytearray"}
    THEN [heap |-> h, ret |-> 0, exc |-> "TypeError"]
    ELSE LET h1 == Append(h, Obj("bytes", h[r].data))
             r1 == Len(h) + 1
             b == h1[r1].data
         IN  IF /\ Len(b) >= Len(UTF8_BOM)
                /\ SliceTo(b, Len(UTF8_BOM)) = UTF8_BOM
                /\ is_utf8(b)
             THEN [heap |-> Append(h1, Obj("bytes", SliceFrom(b, Len(UTF8_BOM)))),
                   ret |-> Len(h1) + 1, exc |-> "none"]
             ELSE [heap |-> h1, ret |-> r1, exc |-> "none"]

strip_bom_buffer(h, r) ==
    IF h[r].type \notin {"bytes", "bytearray"}
    THEN [heap |-> h, ret |-> 0, exc |-> "TypeError"]
    ELSE LET conv == h[r].type = "bytearray"
             \* byte_array = bytes(byte_array)
             h1 == IF conv THEN Append(h, Obj("bytes", h[r].data)) ELSE h
             r1 == IF conv THEN Len(h) + 1 ELSE r
             b == h1[r1].data
         IN  IF /\ Len(b) >= Len(UTF8_BOM)
                /\ SliceTo(b, Len(UTF8_BOM)) = UTF8_BOM
                /\ is_utf8(b)
             THEN [heap |-> Append(h1, Obj("bytes", SliceFrom(b, Len(UTF8_BOM)))),
                   ret |-> Len(h1) + 1, exc |-> "none"]
             ELSE [heap |-> h1, ret |-> r1, exc |-> "none"]

\* -------------------------------------------------------- strip_bom_file
\* the code point of the well-formed sequence of k bytes that starts at b[i]
Utf8CodePoint(b, i, k) ==
    CASE k = 1 -> b[i]
      [] k = 2 -> (b[i] - 192) * 64 + (b[i + 1] - 128)
      [] k = 3 -> (b[i] - 224) * 4096 + (b[i + 1] - 128) * 64 + (b[i + 2] - 128)
      [] k = 4 -> (b[i] - 240) * 262144 + (b[i + 1] - 128) * 4096
                    + (b[i + 2] - 128) * 64 + (b[i + 3] - 128)

RECURSIVE Utf8DecodeFrom(_, _)
\* the text a file opened with encoding='utf-8' reads from valid bytes b
Utf8DecodeFrom(b, i) ==
    IF i > Len(b) THEN <<>>
    ELSE LET k == Utf8SeqLen(b, i)
         IN  <<Utf8CodePoint(b, i, k)>> \o Utf8DecodeFrom(b, i + k)

\* open(file_path, ...): the exception open raises for the entry e that
\* file_path names, "none" when it opens
OpenError(e) ==
    CASE e.type = "missing" -> "FileNotFoundError"
      [] e.type = "directory" -> "IsADirectoryError"
      [] OTHER -> "none"

\* faulty variant: the file is opened before the mode is looked at, so the
\* errors of open come first also for an unsupported mode
strip_bom_file_opens_first(h, r, m) ==
    IF OpenError(h[r]) # "none"
    THEN [heap |-> h, ret |-> 0, exc |-> OpenError(h[r])]
    ELSE IF m \in {"r", "rt"}
    THEN IF ~is_utf8(h[r].data)
         THEN [heap |-> h, ret |-> 0, exc |-> "UnicodeDecodeError"]
         ELSE LET h1 == Append(h, Obj("str", Utf8DecodeFrom(h[r].data, 1)))
              IN  strip_bom(h1, Len(h1))
    ELSE IF m = "rb"
    THEN LET h1 == Append(h, Obj("bytes", h[r].data))
         IN  strip_bom_buffer(h1, Len(h1))
    ELSE [heap |-> h, ret |-> 0, exc |-> "ValueError"]

\* strip_bom_file(file_path, mode): r refers to the entry file_path names, m
\* is the mode; content is a new object that f.read() returns
strip_bom_file(h, r, m) ==
    IF m \in {"r", "rt"}
    THEN IF OpenError(h[r]) # "none"
         THEN [heap |-> h, ret |-> 0, exc |-> OpenError(h[r])]
         ELSE IF ~is_utf8(h[r].data)
         THEN [heap |-> h, ret |-> 0, exc |-> "UnicodeDecodeError"]
         ELSE LET h1 == Append(h, Obj("str", Utf8DecodeFrom(h[r].data, 1)))
              IN  strip_bom(h1, Len(h1))
    ELSE IF m = "rb"
    THEN IF OpenError(h[r]) # "none"
         THEN [heap |-> h, ret |-> 0, exc |-> OpenError(h[r])]
         ELSE LET h1 == Append(h, Obj("bytes", h[r].data))
              IN  strip_bom_buffer(h1, Len(h1))
    ELSE [heap |-> h, ret |-> 0, exc |-> "ValueError"]

\* ------------------------------------------------------------------ state
VARIABLES
    op,          \* the operation the caller invokes
    mode,        \* the mode argument of strip_bom_file
    g2,          \* a second generator with its source, while the consumer
                 \* is busy with the first one (NoGen when there is none)
    heap,        \* the objects; heap[1] is the caller's argument
    chunk_size,  \* the chunk_size argument of strip_bom_stream
    pc,          \* "start", then "called", then "called2" (result fed back)
    ret,         \* reference returned by the first call (0: none)
    ret2,        \* reference returned by the call on the first result
    exc,         \* exception the caller has seen, "none" if none
    gen,         \* generator: "none", "created", "first", "loop", "done"
    pos,         \* read position of the source
    src_err,     \* failure the source raised on its latest read, "none" if none
    reads,       \* sizes of the read requests issued on the source, in order
    out,         \* chunks the generator has yielded, in order
    last         \* how the latest run of the generator body ended: "chunk"
                 \* (a yield), "stop" (return), "raise", "closed"; "none" before

vars == <<op, mode, g2, heap, chunk_size, pc, ret, ret2, exc, gen, pos, src_err, reads, out, last>>

streamVars == <<gen, pos, src_err, reads, out, last>>

Ops == {"strip_bom", "strip_bom_buffer", "strip_bom_stream", "strip_bom_file"}

\* no second generator
NoGen == [id |-> 0, heap |-> <<>>, chunk_size |-> DefaultChunkSize, pc |-> "start",
          exc |-> "none", gen |-> "none", pos |-> 0, src_err |-> "none",
          reads |-> <<>>, out |-> <<>>, last |-> "none"]

ArgsOf(o) ==
    CASE o = "strip_bom" -> TextValues \cup NonText
      [] o = "strip_bom_buffer" -> ByteValues \cup NonBytes
      [] o = "strip_bom_stream" -> Sources \cup NonFileLike
      [] o = "strip_bom_file" -> FileEntries

Init ==
    /\ op \in Ops
    /\ \E a \in ArgsOf(op) : heap = <<a>>
    /\ chunk_size \in (IF op = "strip_bom_stream" THEN ChunkSizes ELSE {DefaultChunkSize})
    /\ mode \in (IF op = "strip_bom_file" THEN Modes ELSE {"r"})
    /\ g2 = NoGen
    /\ pc = "start"
    /\ ret = 0
    /\ ret2 = 0
    /\ exc = "none"
    /\ gen = "none"
    /\ pos = 0
    /\ src_err = "none"
    /\ reads = <<>>
    /\ out = <<>>
    /\ last = "none"

\* ------------------------------------------------- calls of strip_bom
CallStripBom ==
    /\ op = "strip_bom" /\ pc = "start"
    /\ LET r == strip_bom(heap, 1)
       IN  /\ heap' = r.heap
           /\ ret' = r.ret
           /\ exc' = r.exc
    /\ pc' = "called"
    /\ UNCHANGED <<op, mode, g2, chunk_size, ret2, streamVars>>

\* strip_bom(strip_bom(s))
CallStripBomAgain ==
    /\ op = "strip_bom" /\ pc = "called" /\ exc = "none"
    /\ LET r == strip_bom(heap, ret)
       IN  /\ heap' = r.heap
           /\ ret2' = r.ret
           /\ exc' = r.exc
    /\ pc' = "called2"
    /\ UNCHANGED <<op, mode, g2, chunk_size, ret, streamVars>>

\* ------------------------------------------ calls of strip_bom_buffer
CallStripBomBuffer ==
    /\ op = "strip_bom_buffer" /\ pc = "start"
    /\ LET r == strip_bom_buffer(heap, 1)
       IN  /\ heap' = r.heap
           /\ ret' = r.ret
           /\ exc' = r.exc
    /\ pc' = "called"
    /\ UNCHANGED <<op, mode, g2, chunk_size, ret2, streamVars>>

\* strip_bom_buffer(strip_bom_buffer(b))
CallStripBomBufferAgain ==
    /\ op = "strip_bom_buffer" /\ pc = "called" /\ exc = "none"
    /\ LET r == strip_bom_buffer(heap, ret)
       IN  /\ heap' = r.heap
           /\ ret2' = r.ret
           /\ exc' = r.exc
    /\ pc' = "called2"
    /\ UNCHANGED <<op, mode, g2, chunk_size, ret, streamVars>>

\* -------------------------------------------- call of strip_bom_file
CallStripBomFile ==
    /\ op = "strip_bom_file" /\ pc = "start"
    /\ LET r == strip_bom_file(heap, 1, mode)
       IN  /\ heap' = r.heap
           /\ ret' = r.ret
           /\ exc' = r.exc
    /\ pc' = "called"
    /\ UNCHANGED <<op, mode, g2, chunk_size, ret2, streamVars>>

\* ------------------------------------------------------ the byte source
\* io.BytesIO.read(n) at position p of content c: up to n bytes, all the
\* remaining bytes when n is negative
ReadBytes(c, p, n) ==
    IF n < 0 THEN SliceFrom(c, p)
    ELSE SubSeq(c, p + 1, Min(p + n, Len(c)))

\* what a read call on the caller's source can do: return bytes, or raise
\* (ValueError on a closed stream, OSError on an I/O failure)
ReadOutcomes == {"ok", "ValueError", "OSError"}

\* -------------------------------------------------- strip_bom_stream
\* faulty variant: strip_bom_stream is itself the generator function, so the hasattr
\* check does not run at the call and a generator comes back for any argument
CallStripBomStream_lazy ==
    /\ op = "strip_bom_stream" /\ pc = "start"
    /\ pc' = "called"
    /\ exc' = "none"
    /\ gen' = "created"
    /\ UNCHANGED <<op, mode, g2, heap, chunk_size, ret, ret2, pos, src_err, reads, out, last>>

\* faulty variant: the first read is made at the call, before any pull
CallStripBomStream_eager ==
    /\ op = "strip_bom_stream" /\ pc = "start"
    /\ pc' = "called"
    /\ IF heap[1].type # "BytesIO"
       THEN /\ exc' = "TypeError"
            /\ gen' = "none"
            /\ UNCHANGED <<pos, reads>>
       ELSE /\ exc' = "none"
            /\ gen' = "created"
            /\ reads' = <<Max(Len(UTF8_BOM), chunk_size)>>
            /\ pos' = Len(ReadBytes(heap[1].data, 0, Max(Len(UTF8_BOM), chunk_size)))
    /\ UNCHANGED <<op, mode, g2, heap, chunk_size, ret, ret2, src_err, out, last>>

\* the call itself: the hasattr check, then the generator object is returned
\* without running any of its body
CallStripBomStream ==
    /\ op = "strip_bom_stream" /\ pc = "start"
    /\ pc' = "called"
    /\ IF heap[1].type # "BytesIO"
       THEN /\ exc' = "TypeError"
            /\ gen' = "none"
       ELSE /\ exc' = "none"
            /\ gen' = "created"
    /\ UNCHANGED <<op, mode, g2, heap, chunk_size, ret, ret2, pos, src_err, reads, out, last>>

\* faulty variant: a failure of read is caught and taken for the end of the data
\* (try: ... except Exception: break)
LoopRead_swallow(p, rd, o, f) ==
    LET chunk == ReadBytes(heap[1].data, p, chunk_size)
    IN  /\ reads' = Append(rd, chunk_size)
        /\ IF f # "ok"
           THEN /\ src_err' = f
                /\ exc' = exc
                /\ gen' = "done"
                /\ last' = "stop"
                /\ pos' = p
                /\ out' = o
           ELSE /\ src_err' = "none"
                /\ exc' = exc
                /\ pos' = p + Len(chunk)
                /\ IF Len(chunk) = 0
                   THEN /\ gen' = "done"
                        /\ last' = "stop"
                        /\ out' = o
                   ELSE /\ gen' = "loop"
                        /\ last' = "chunk"
                        /\ out' = Append(o, chunk)

\* faulty variant: every chunk goes through strip_bom_buffer, not only the first
LoopRead_strips_each(p, rd, o, f) ==
    LET chunk == ReadBytes(heap[1].data, p, chunk_size)
        res == strip_bom_buffer(<<Obj("bytes", chunk)>>, 1)
        processed == res.heap[res.ret].data
    IN  /\ reads' = Append(rd, chunk_size)
        /\ IF f # "ok"
           THEN /\ src_err' = f
                /\ exc' = f
                /\ gen' = "done"
                /\ last' = "raise"
                /\ pos' = p
                /\ out' = o
           ELSE /\ src_err' = "none"
                /\ exc' = exc
                /\ pos' = p + Len(chunk)
                /\ IF Len(chunk) = 0
                   THEN /\ gen' = "done"
                        /\ last' = "stop"
                        /\ out' = o
                   ELSE /\ gen' = "loop"
                        /\ last' = "chunk"
                        /\ out' = Append(o, processed)

\* faulty variant: the loop reads without a size (file_like.read()), all the rest
\* of the source at once
LoopRead_reads_rest(p, rd, o, f) ==
    LET chunk == ReadBytes(heap[1].data, p, -1)
    IN  /\ reads' = Append(rd, -1)
        /\ IF f # "ok"
           THEN /\ src_err' = f
                /\ exc' = f
                /\ gen' = "done"
                /\ last' = "raise"
                /\ pos' = p
                /\ out' = o
           ELSE /\ src_err' = "none"
                /\ exc' = exc
                /\ pos' = p + Len(chunk)
                /\ IF Len(chunk) = 0
                   THEN /\ gen' = "done"
                        /\ last' = "stop"
                        /\ out' = o
                   ELSE /\ gen' = "loop"
                        /\ last' = "chunk"
                        /\ out' = Append(o, chunk)

\* faulty variant: the loop asks for max(len(UTF8_BOM), chunk_size) bytes like
\* the first read
LoopRead_min_size(p, rd, o, f) ==
    LET chunk == ReadBytes(heap[1].data, p, Max(Len(UTF8_BOM), chunk_size))
    IN  /\ reads' = Append(rd, Max(Len(UTF8_BOM), chunk_size))
        /\ IF f # "ok"
           THEN /\ src_err' = f
                /\ exc' = f
                /\ gen' = "done"
                /\ last' = "raise"
                /\ pos' = p
                /\ out' = o
           ELSE /\ src_err' = "none"
                /\ exc' = exc
                /\ pos' = p + Len(chunk)
                /\ IF Len(chunk) = 0
                   THEN /\ gen' = "done"
                        /\ last' = "stop"
                        /\ out' = o
                   ELSE /\ gen' = "loop"
                        /\ last' = "chunk"
                        /\ out' = Append(o, chunk)

\* faulty variant: the loop asks for one byte less than chunk_size
LoopRead_off_by_one(p, rd, o, f) ==
    LET chunk == ReadBytes(heap[1].data, p, chunk_size - 1)
    IN  /\ reads' = Append(rd, chunk_size - 1)
        /\ IF f # "ok"
           THEN /\ src_err' = f
                /\ exc' = f
                /\ gen' = "done"
                /\ last' = "raise"
                /\ pos' = p
                /\ out' = o
           ELSE /\ src_err' = "none"
                /\ exc' = exc
                /\ pos' = p + Len(chunk)
                /\ IF Len(chunk) = 0
                   THEN /\ gen' = "done"
                        /\ last' = "stop"
                        /\ out' = o
                   ELSE /\ gen' = "loop"
                        /\ last' = "chunk"
                        /\ out' = Append(o, chunk)

\* faulty variant: a read that returns fewer bytes than asked for is taken for
\* the end of the data
LoopRead_stops_on_short(p, rd, o, f) ==
    LET chunk == ReadBytes(heap[1].data, p, chunk_size)
    IN  /\ reads' = Append(rd, chunk_size)
        /\ IF f # "ok"
           THEN /\ src_err' = f
                /\ exc' = f
                /\ gen' = "done"
                /\ last' = "raise"
                /\ pos' = p
                /\ out' = o
           ELSE /\ src_err' = "none"
                /\ exc' = exc
                /\ pos' = p + Len(chunk)
                /\ IF Len(chunk) = 0 \/ Len(chunk) < chunk_size
                   THEN /\ gen' = "done"
                        /\ last' = "stop"
                        /\ out' = o
                   ELSE /\ gen' = "loop"
                        /\ last' = "chunk"
                        /\ out' = Append(o, chunk)

\* one pass of "while True: chunk = file_like.read(chunk_size) ...", from
\* position p with read log rd and yielded chunks o, up to the next yield,
\* the break or the propagated failure; f is what the read call does
LoopRead(p, rd, o, f) ==
    LET chunk == ReadBytes(heap[1].data, p, chunk_size)
    IN  /\ reads' = Append(rd, chunk_size)
        /\ IF f # "ok"
           THEN /\ src_err' = f
                /\ exc' = f
                /\ gen' = "done"
                /\ last' = "raise"
                /\ pos' = p
                /\ out' = o
           ELSE /\ src_err' = "none"
                /\ exc' = exc
                /\ pos' = p + Len(chunk)
                /\ IF Len(chunk) = 0
                   THEN /\ gen' = "done"
                        /\ last' = "stop"
                        /\ out' = o
                   ELSE /\ gen' = "loop"
                        /\ last' = "chunk"
                        /\ out' = Append(o, chunk)

\* faulty variant: the first read asks for chunk_size bytes, not for
\* max(len(UTF8_BOM), chunk_size)
FirstPull_no_min(f1, f2) ==
    LET min_read_size == chunk_size
        first_chunk == ReadBytes(heap[1].data, pos, min_read_size)
        res == strip_bom_buffer(<<Obj("bytes", first_chunk)>>, 1)
        processed_first == res.heap[res.ret].data
    IN  IF f1 # "ok"
        THEN /\ reads' = Append(reads, min_read_size)
             /\ src_err' = f1
             /\ exc' = f1
             /\ gen' = "done"
             /\ last' = "raise"
             /\ UNCHANGED <<pos, out>>
        ELSE IF Len(first_chunk) = 0
        THEN /\ reads' = Append(reads, min_read_size)
             /\ src_err' = "none"
             /\ gen' = "done"
             /\ last' = "stop"
             /\ UNCHANGED <<pos, exc, out>>
        ELSE IF Len(processed_first) > 0
        THEN /\ reads' = Append(reads, min_read_size)
             /\ src_err' = "none"
             /\ pos' = pos + Len(first_chunk)
             /\ out' = Append(out, processed_first)
             /\ gen' = "first"
             /\ last' = "chunk"
             /\ UNCHANGED exc
        ELSE LoopRead(pos + Len(first_chunk), Append(reads, min_read_size), out, f2)

\* faulty variant: the first chunk loses a BOM prefix without going through
\* strip_bom_buffer (first_chunk[3:] if first_chunk.startswith(UTF8_BOM))
FirstPull_ungated(f1, f2) ==
    LET min_read_size == Max(Len(UTF8_BOM), chunk_size)
        first_chunk == ReadBytes(heap[1].data, pos, min_read_size)
        processed_first == IF SliceTo(first_chunk, Len(UTF8_BOM)) = UTF8_BOM
                           THEN SliceFrom(first_chunk, Len(UTF8_BOM))
                           ELSE first_chunk
    IN  IF f1 # "ok"
        THEN /\ reads' = Append(reads, min_read_size)
             /\ src_err' = f1
             /\ exc' = f1
             /\ gen' = "done"
             /\ last' = "raise"
             /\ UNCHANGED <<pos, out>>
        ELSE IF Len(first_chunk) = 0
        THEN /\ reads' = Append(reads, min_read_size)
             /\ src_err' = "none"
             /\ gen' = "done"
             /\ last' = "stop"
             /\ UNCHANGED <<pos, exc, out>>
        ELSE IF Len(processed_first) > 0
        THEN /\ reads' = Append(reads, min_read_size)
             /\ src_err' = "none"
             /\ pos' = pos + Len(first_chunk)
             /\ out' = Append(out, processed_first)
             /\ gen' = "first"
             /\ last' = "chunk"
             /\ UNCHANGED exc
        ELSE LoopRead(pos + Len(first_chunk), Append(reads, min_read_size), out, f2)

\* faulty variant: the BOM is stripped when the whole content of the source is
\* valid UTF-8, not the first chunk alone
FirstPull_whole_content(f1, f2) ==
    LET min_read_size == Max(Len(UTF8_BOM), chunk_size)
        first_chunk == ReadBytes(heap[1].data, pos, min_read_size)
        processed_first == IF SliceTo(first_chunk, Len(UTF8_BOM)) = UTF8_BOM
                              /\ is_utf8(heap[1].data)
                           THEN SliceFrom(first_chunk, Len(UTF8_BOM))
                           ELSE first_chunk
    IN  IF f1 # "ok"
        THEN /\ reads' = Append(reads, min_read_size)
             /\ src_err' = f1
             /\ exc' = f1
             /\ gen' = "done"
             /\ last' = "raise"
             /\ UNCHANGED <<pos, out>>
        ELSE IF Len(first_chunk) = 0
        THEN /\ reads' = Append(reads, min_read_size)
             /\ src_err' = "none"
             /\ gen' = "done"
             /\ last' = "stop"
             /\ UNCHANGED <<pos, exc, out>>
        ELSE IF Len(processed_first) > 0
        THEN /\ reads' = Append(reads, min_read_size)
             /\ src_err' = "none"
             /\ pos' = pos + Len(first_chunk)
             /\ out' = Append(out, processed_first)
             /\ gen' = "first"
             /\ last' = "chunk"
             /\ UNCHANGED exc
        ELSE LoopRead(pos + Len(first_chunk), Append(reads, min_read_size), out, f2)

\* faulty variant: the processed first chunk is yielded without the test
\* "if processed_first", also when it is empty
FirstPull_yields_empty(f1, f2) ==
    LET min_read_size == Max(Len(UTF8_BOM), chunk_size)
        first_chunk == ReadBytes(heap[1].data, pos, min_read_size)
        res == strip_bom_buffer(<<Obj("bytes", first_chunk)>>, 1)
        processed_first == res.heap[res.ret].data
    IN  IF f1 # "ok"
        THEN /\ reads' = Append(reads, min_read_size)
             /\ src_err' = f1
             /\ exc' = f1
             /\ gen' = "done"
             /\ last' = "raise"
             /\ UNCHANGED <<pos, out>>
        ELSE IF Len(first_chunk) = 0
        THEN /\ reads' = Append(reads, min_read_size)
             /\ src_err' = "none"
             /\ gen' = "done"
             /\ last' = "stop"
             /\ UNCHANGED <<pos, exc, out>>
        ELSE IF Len(processed_first) >= 0
        THEN /\ reads' = Append(reads, min_read_size)
             /\ src_err' = "none"
             /\ pos' = pos + Len(first_chunk)
             /\ out' = Append(out, processed_first)
             /\ gen' = "first"
             /\ last' = "chunk"
             /\ UNCHANGED exc
        ELSE LoopRead(pos + Len(first_chunk), Append(reads, min_read_size), out, f2)

\* the first resumption of the generator, lines 119-130, and on into the
\* loop when the processed first chunk is empty; f1 and f2 are what the
\* first and the second read call do
FirstPull(f1, f2) ==
    LET min_read_size == Max(Len(UTF8_BOM), chunk_size)
        first_chunk == ReadBytes(heap[1].data, pos, min_read_size)
        res == strip_bom_buffer(<<Obj("bytes", first_chunk)>>, 1)
        processed_first == res.heap[res.ret].data
    IN  IF f1 # "ok"
        THEN /\ reads' = Append(reads, min_read_size)
             /\ src_err' = f1
             /\ exc' = f1
             /\ gen' = "done"
             /\ last' = "raise"
             /\ UNCHANGED <<pos, out>>
        ELSE IF Len(first_chunk) = 0
        THEN /\ reads' = Append(reads, min_read_size)
             /\ src_err' = "none"
             /\ gen' = "done"
             /\ last' = "stop"
             /\ UNCHANGED <<pos, exc, out>>
        ELSE IF Len(processed_first) > 0
        THEN /\ reads' = Append(reads, min_read_size)
             /\ src_err' = "none"
             /\ pos' = pos + Len(first_chunk)
             /\ out' = Append(out, processed_first)
             /\ gen' = "first"
             /\ last' = "chunk"
             /\ UNCHANGED exc
        ELSE LoopRead(pos + Len(first_chunk), Append(reads, min_read_size), out, f2)

\* next(gen) on a generator that has not started
PullFirst ==
    /\ gen = "created"
    /\ \E f1 \in ReadOutcomes, f2 \in ReadOutcomes : FirstPull(f1, f2)
    /\ UNCHANGED <<op, mode, g2, heap, chunk_size, pc, ret, ret2>>

\* next(gen) on a generator suspended at a yield: lines 133-137
PullNext ==
    /\ gen \in {"first", "loop"}
    /\ \E f \in ReadOutcomes : LoopRead(pos, reads, out, f)
    /\ UNCHANGED <<op, mode, g2, heap, chunk_size, pc, ret, ret2>>

\* next(gen) on a finished generator: StopIteration is signalled again and
\* no line of the generator body runs
PullDone ==
    /\ gen = "done"
    /\ UNCHANGED vars

\* faulty variant: a suspended generator reacts to close() by reading the rest of
\* the source (a "finally: file_like.read()" around the loop)
Close_drains ==
    /\ gen \in {"created", "first", "loop"}
    /\ gen' = "done"
    /\ last' = "closed"
    /\ IF gen = "created"
       THEN UNCHANGED <<pos, reads>>
       ELSE /\ reads' = Append(reads, -1)
            /\ pos' = Len(heap[1].data)
    /\ UNCHANGED <<op, mode, g2, heap, chunk_size, pc, ret, ret2, exc, src_err, out>>

\* gen.close() on a generator that has not finished: GeneratorExit at the
\* yield it is suspended at, or nothing at all when it has not started
Close ==
    /\ gen \in {"created", "first", "loop"}
    /\ gen' = "done"
    /\ last' = "closed"
    /\ UNCHANGED <<op, mode, g2, heap, chunk_size, pc, ret, ret2, exc, pos, src_err, reads, out>>

Next ==
    \/ CallStripBom
    \/ CallStripBomAgain
    \/ CallStripBomBuffer
    \/ CallStripBomBufferAgain
    \/ CallStripBomFile
    \/ CallStripBomStream
    \/ PullFirst
    \/ PullNext
    \/ PullDone
    \/ Close

Spec == Init /\ [][Next]_vars

\* --------------------------------------------- two generators, one consumer
\* the generator the consumer is busy with, as a record like g2
Active ==
    [id |-> 3 - g2.id, heap |-> heap, chunk_size |-> chunk_size, pc |-> pc,
     exc |-> exc, gen |-> gen, pos |-> pos, src_err |-> src_err,
     reads |-> reads, out |-> out, last |-> last]

\* faulty variant: the read position is a module-level variable that all
\* generators share, so it stays where the other generator left it
Switch_shares_position ==
    /\ g2.id # 0
    /\ g2' = Active
    /\ heap' = g2.heap
    /\ chunk_size' = g2.chunk_size
    /\ pc' = g2.pc
    /\ exc' = g2.exc
    /\ gen' = g2.gen
    /\ src_err' = g2.src_err
    /\ reads' = g2.reads
    /\ out' = g2.out
    /\ last' = g2.last
    /\ UNCHANGED <<op, mode, ret, ret2, pos>>

\* the consumer turns from one generator to the other: each generator object
\* keeps its own frame (stream, chunk_size, position in the body) and each
\* source its own read position
Switch ==
    /\ g2.id # 0
    /\ g2' = Active
    /\ heap' = g2.heap
    /\ chunk_size' = g2.chunk_size
    /\ pc' = g2.pc
    /\ exc' = g2.exc
    /\ gen' = g2.gen
    /\ pos' = g2.pos
    /\ src_err' = g2.src_err
    /\ reads' = g2.reads
    /\ out' = g2.out
    /\ last' = g2.last
    /\ UNCHANGED <<op, mode, ret, ret2>>

\* contents of the two sources: nothing, a BOM or the first byte of one, then
\* a short tail
PairContents ==
    {p \o t : p \in {<<>>, UTF8_BOM, <<239>>}, t \in SeqsUpTo({65}, MaxTail)}

\* chunk sizes of the two calls: below and at the length of the BOM
PairChunkSizes == {1, 3}

\* two calls of strip_bom_stream on two distinct sources are about to be made
PairInit ==
    /\ op = "strip_bom_stream"
    /\ mode = "r"
    /\ \E c \in PairContents : heap = <<Obj("BytesIO", c)>>
    /\ chunk_size \in PairChunkSizes
    /\ \E c \in PairContents, n \in PairChunkSizes :
          g2 = [NoGen EXCEPT !.id = 2, !.heap = <<Obj("BytesIO", c)>>, !.chunk_size = n]
    /\ pc = "start"
    /\ ret = 0
    /\ ret2 = 0
    /\ exc = "none"
    /\ gen = "none"
    /\ pos = 0
    /\ src_err = "none"
    /\ reads = <<>>
    /\ out = <<>>
    /\ last = "none"

PairNext ==
    \/ CallStripBomStream
    \/ PullFirst
    \/ PullNext
    \/ PullDone
    \/ Close
    \/ Switch

SpecPair == PairInit /\ [][PairNext]_vars

\* ------------------------------- a consumer that pulls until the end
\* pulls on a source whose reads do not fail: it returns zero bytes only at
\* the end of its data
PullFirstOk == PullFirst /\ src_err' = "none"

PullNextOk == PullNext /\ src_err' = "none"

LiveInit ==
    /\ op = "strip_bom_stream"
    /\ mode = "r"
    /\ g2 = NoGen
    /\ \E c \in SeqsUpTo(ByteAlphabet, MaxLive) : heap = <<Obj("BytesIO", c)>>
    /\ chunk_size \in ChunkSizes
    /\ pc = "start"
    /\ ret = 0
    /\ ret2 = 0
    /\ exc = "none"
    /\ gen = "none"
    /\ pos = 0
    /\ src_err = "none"
    /\ reads = <<>>
    /\ out = <<>>
    /\ last = "none"

LiveNext ==
    \/ CallStripBomStream
    \/ PullFirstOk
    \/ PullNextOk
    \/ PullDone

\* the consumer keeps pulling: "for chunk in strip_bom_stream(f)"
SpecLive ==
    LiveInit /\ [][LiveNext]_vars /\ WF_vars(PullFirstOk) /\ WF_vars(PullNextOk)

\* ====================================================================
\* Properties
\* ====================================================================

\* Well-formed UTF-8 byte sequences, Unicode Standard table 3-7: each row is
\* the list of inclusive byte ranges of one well-formed sequence
WellFormedRows ==
    { << <<0, 127>> >>,
      << <<194, 223>>, <<128, 191>> >>,
      << <<224, 224>>, <<160, 191>>, <<128, 191>> >>,
      << <<225, 236>>, <<128, 191>>, <<128, 191>> >>,
      << <<237, 237>>, <<128, 159>>, <<128, 191>> >>,
      << <<238, 239>>, <<128, 191>>, <<128, 191>> >>,
      << <<240, 240>>, <<144, 191>>, <<128, 191>>, <<128, 191>> >>,
      << <<241, 243>>, <<128, 191>>, <<128, 191>>, <<128, 191>> >>,
      << <<244, 244>>, <<128, 143>>, <<128, 191>>, <<128, 191>> >> }

RowMatches(b, i, row) ==
    /\ i + Len(row) - 1 <= Len(b)
    /\ \A k \in 1..Len(row) : b[i + k - 1] >= row[k][1] /\ b[i + k - 1] <= row[k][2]

RECURSIVE WellFormedFrom(_, _)
WellFormedFrom(b, i) ==
    \/ i > Len(b)
    \/ \E row \in WellFormedRows : RowMatches(b, i, row) /\ WellFormedFrom(b, i + Len(row))

\* b is a complete, strictly valid UTF-8 encoding
ValidUtf8(b) == WellFormedFrom(b, 1)

\* b begins with the three bytes EF BB BF
HasBomPrefix(b) == Len(b) >= 3 /\ b[1] = 239 /\ b[2] = 187 /\ b[3] = 191

\* s begins with the code point U+FEFF
HasBomChar(s) == Len(s) >= 1 /\ s[1] = 65279

\* strip_bom_buffer has been called once on a bytes or bytearray argument
BufferCalled ==
    /\ op = "strip_bom_buffer" /\ pc = "called"
    /\ heap[1].type \in {"bytes", "bytearray"}

\* strip_bom has been called once on a text argument
StringCalled ==
    /\ op = "strip_bom" /\ pc = "called"
    /\ heap[1].type = "str"

\* C1: strip_bom_buffer(b) raises nothing; when b has at least 3 bytes, begins
\* with EF BB BF and is valid UTF-8 as a whole, the result is b without its
\* first 3 bytes (3 bytes shorter); in every other case (shorter than 3 bytes,
\* a partial BOM, a BOM followed by invalid UTF-8) the result equals b.
C1_BufferStripIff ==
    BufferCalled =>
        LET b == heap[1].data
            strips == HasBomPrefix(b) /\ ValidUtf8(b)
        IN  /\ exc = "none"
            /\ ret \in 1..Len(heap)
            /\ strips => /\ heap[ret].data = SubSeq(b, 4, Len(b))
                         /\ Len(heap[ret].data) = Len(b) - 3
            /\ ~strips => heap[ret].data = b

\* C1 witness: a BOM followed by more valid text has been stripped
C1_Witness ==
    /\ BufferCalled
    /\ Len(heap[1].data) > 3
    /\ HasBomPrefix(heap[1].data)
    /\ heap[ret].data = SubSeq(heap[1].data, 4, Len(heap[1].data))

\* C2: strip_bom(s) on a text s that begins with U+FEFF returns s without its
\* first code point (length len(s) - 1, a second U+FEFF stays); on every
\* other text, the empty one included, it returns the instance s itself.
C2_StringStrip ==
    StringCalled =>
        LET s == heap[1].data
        IN  /\ exc = "none"
            /\ ret \in 1..Len(heap)
            /\ HasBomChar(s) => /\ heap[ret].data = Tail(s)
                                /\ Len(heap[ret].data) = Len(s) - 1
                                /\ heap[ret].type = "str"
            /\ ~HasBomChar(s) => ret = 1

\* C2 witness: the text began with two U+FEFF and the result still begins
\* with one
C2_Witness ==
    /\ StringCalled
    /\ Len(heap[1].data) >= 3
    /\ heap[1].data[1] = 65279 /\ heap[1].data[2] = 65279
    /\ HasBomChar(heap[ret].data)
    /\ Len(heap[ret].data) = Len(heap[1].data) - 1

\* strip_bom has been applied to a text and then to its own result
StringCalledTwice ==
    /\ op = "strip_bom" /\ pc = "called2"
    /\ heap[1].type = "str"

\* C3 as stated: strip_bom(strip_bom(s)) == strip_bom(s) for every text s.
C3_Original ==
    StringCalledTwice => heap[ret2].data = heap[ret].data

\* C3 amended: strip_bom(strip_bom(s)) == strip_bom(s) for every text s that
\* does not begin with two U+FEFF code points (the second call then returns
\* its argument itself); when s begins with two, the second call removes one
\* more code point, so the two results differ.
C3_StringIdempotentAmended ==
    StringCalledTwice =>
        LET s == heap[1].data
            two == Len(s) >= 2 /\ s[1] = 65279 /\ s[2] = 65279
        IN  /\ exc = "none"
            /\ ~two => ret2 = ret /\ heap[ret2].data = heap[ret].data
            /\ two => /\ heap[ret2].data = Tail(heap[ret].data)
                      /\ heap[ret2].data # heap[ret].data

\* C3 witness: one leading U+FEFF was removed by the first call and the
\* second call returned its argument
C3_Witness ==
    /\ StringCalledTwice
    /\ Len(heap[1].data) >= 2
    /\ heap[1].data[1] = 65279 /\ heap[1].data[2] # 65279
    /\ ret # 1
    /\ ret2 = ret

\* strip_bom_buffer has been applied to a buffer and then to its own result
BufferCalledTwice ==
    /\ op = "strip_bom_buffer" /\ pc = "called2"
    /\ heap[1].type \in {"bytes", "bytearray"}

\* C4 as stated: strip_bom_buffer(strip_bom_buffer(b)) == strip_bom_buffer(b)
\* for every byte sequence b.
C4_Original ==
    BufferCalledTwice => heap[ret2].data = heap[ret].data

\* C4 amended: strip_bom_buffer(strip_bom_buffer(b)) == strip_bom_buffer(b)
\* for every b except a valid UTF-8 b that begins with two BOM sequences
\* (EF BB BF EF BB BF); for such a b the second call strips the second BOM.
C4_BufferIdempotentAmended ==
    BufferCalledTwice =>
        LET b == heap[1].data
            two == /\ HasBomPrefix(b)
                   /\ HasBomPrefix(SubSeq(b, 4, Len(b)))
                   /\ ValidUtf8(b)
        IN  /\ exc = "none"
            /\ ~two => heap[ret2].data = heap[ret].data
            /\ two => /\ heap[ret2].data = SubSeq(heap[ret].data, 4, Len(heap[ret].data))
                      /\ heap[ret2].data # heap[ret].data

\* C4 witness: a single BOM was stripped by the first call and the second
\* call left the result as it was
C4_Witness ==
    /\ BufferCalledTwice
    /\ Len(heap[1].data) > 3
    /\ HasBomPrefix(heap[1].data)
    /\ heap[ret].data = SubSeq(heap[1].data, 4, Len(heap[1].data))
    /\ ret2 = ret

\* C10: identity contract of strip_bom_buffer. For a bytes argument from which
\* no BOM is stripped the result is the argument itself (the same instance).
\* For a bytearray argument the result is always another object, of type
\* bytes, whether or not a BOM was stripped, and the caller's bytearray keeps
\* its type and content through every call.
C10_BufferIdentity ==
    /\ [](BufferCalled =>
            /\ (heap[1].type = "bytes" /\ heap[ret].data = heap[1].data) => ret = 1
            /\ heap[1].type = "bytearray" => (ret # 1 /\ heap[ret].type = "bytes"))
    /\ [][op = "strip_bom_buffer" => heap'[1] = heap[1]]_vars

\* C10 witness: a bytearray without a BOM came back as a new bytes object of
\* equal content
C10_Witness ==
    /\ BufferCalled
    /\ heap[1].type = "bytearray"
    /\ Len(heap[1].data) >= 3
    /\ ret = 2
    /\ heap[2] = [type |-> "bytes", data |-> heap[1].data]

\* -------------------------------------------------------------- streams
RECURSIVE Flatten(_)
\* b''.join(chunks)
Flatten(chunks) ==
    IF Len(chunks) = 0 THEN <<>> ELSE Head(chunks) \o Flatten(Tail(chunks))

\* the content of the source strip_bom_stream was given
Content == heap[1].data

\* the generator was consumed until it signalled the end of the sequence
Exhausted ==
    /\ op = "strip_bom_stream"
    /\ gen = "done"
    /\ last = "stop"

\* C5: for chunk_size >= 1, the chunks of a fully consumed stream concatenate
\* to b[3:] when the first read F = b[0 : max(3, chunk_size)] begins with
\* EF BB BF and F alone is valid UTF-8, and to b itself otherwise.
C5_StreamConcat ==
    (Exhausted /\ chunk_size >= 1) =>
        LET b == Content
            F == SubSeq(b, 1, Min(Max(3, chunk_size), Len(b)))
        IN  /\ exc = "none"
            /\ Flatten(out) = IF HasBomPrefix(F) /\ ValidUtf8(F)
                              THEN SubSeq(b, 4, Len(b))
                              ELSE b

\* C5 witness: a BOM was stripped from a stream delivered in several chunks
C5_Witness ==
    /\ Exhausted
    /\ chunk_size >= 1
    /\ HasBomPrefix(Content)
    /\ Len(out) >= 2
    /\ Flatten(out) = SubSeq(Content, 4, Len(Content))

\* C6: when chunk_size >= 3 and the whole content fits in the first read
\* (len(b) <= chunk_size), the concatenated chunks of the fully consumed
\* stream equal strip_bom_buffer(b).
C6_StreamBufferEquivalence ==
    (Exhausted /\ chunk_size >= 3 /\ Len(Content) <= chunk_size) =>
        LET r == strip_bom_buffer(<<Obj("bytes", Content)>>, 1)
        IN  /\ r.exc = "none"
            /\ Flatten(out) = r.heap[r.ret].data

\* C6 witness: a BOM-prefixed content that fits in the first read came out
\* without its BOM
C6_Witness ==
    /\ Exhausted
    /\ chunk_size >= 3 /\ chunk_size <= MaxChunk
    /\ Len(Content) = chunk_size
    /\ HasBomPrefix(Content)
    /\ out = <<SubSeq(Content, 4, Len(Content))>>

\* C7: closing the generator before it has finished issues no read, raises
\* nothing, produces nothing and leaves the source position where the last
\* read put it; nor does anything of that change once it has been closed.
C7_Cancellation ==
    [][(last' = "closed" \/ last = "closed") =>
            /\ gen' = "done"
            /\ reads' = reads
            /\ pos' = pos
            /\ out' = out
            /\ exc' = exc
            /\ src_err' = src_err]_vars

\* C7 witness: the consumer closed the generator right after the first
\* chunk, with data left unread in the source
C7_Witness ==
    /\ op = "strip_bom_stream"
    /\ last = "closed"
    /\ chunk_size >= 1
    /\ Len(out) = 1
    /\ Len(reads) = 1
    /\ exc = "none"
    /\ pos < Len(Content)

\* C8: a value of the wrong type is answered by TypeError from the call
\* itself: strip_bom on a non-text, strip_bom_buffer on a value that is
\* neither bytes nor bytearray, strip_bom_stream on a value without read; no
\* value is returned, no generator exists and no read has been issued.
C8_TypeErrorAtCall ==
    /\ (op = "strip_bom" /\ pc # "start" /\ heap[1].type # "str") =>
            (exc = "TypeError" /\ ret = 0 /\ pc = "called")
    /\ (op = "strip_bom_buffer" /\ pc # "start"
            /\ heap[1].type \notin {"bytes", "bytearray"}) =>
            (exc = "TypeError" /\ ret = 0 /\ pc = "called")
    /\ (op = "strip_bom_stream" /\ pc # "start" /\ heap[1].type # "BytesIO") =>
            /\ exc = "TypeError"
            /\ gen = "none"
            /\ reads = <<>>
            /\ out = <<>>
            /\ last = "none"
            /\ pos = 0

\* C8 witness: strip_bom_stream was called with a text value
C8_Witness ==
    /\ op = "strip_bom_stream"
    /\ pc = "called"
    /\ heap[1].type = "str"
    /\ exc = "TypeError"

\* C9: a failure the source raises on a read reaches the consumer unchanged
\* at the pull that issued the read: that pull raises it, the generator is
\* finished, the chunks yielded so far are as they were, and afterwards no
\* read is issued again.
C9_ReadFailurePropagates ==
    /\ [](src_err # "none" => (exc = src_err /\ last = "raise" /\ gen = "done"))
    /\ [][src_err' # "none" => out' = out]_vars
    /\ [][src_err # "none" => (reads' = reads /\ pos' = pos)]_vars

\* C9 witness: a read after the first chunk failed with OSError and the
\* consumer saw OSError
C9_Witness ==
    /\ op = "strip_bom_stream"
    /\ chunk_size >= 1
    /\ src_err = "OSError"
    /\ exc = "OSError"
    /\ Len(out) >= 1
    /\ Len(reads) = Len(out) + 1

\* C11: a BOM at an offset > 0 is never removed by one call.  The result of
\* strip_bom_buffer is the input, or the input without bytes 0..2 with every
\* later byte in place; a chunk yielded by the loop of strip_bom_stream is
\* exactly the bytes its read returned, also when they begin with EF BB BF
\* (the loop read that follows a suppressed first chunk included).
C11_PositionSensitivity ==
    /\ [](BufferCalled =>
            \/ heap[ret].data = heap[1].data
            \/ /\ HasBomPrefix(heap[1].data)
               /\ heap[ret].data = SubSeq(heap[1].data, 4, Len(heap[1].data)))
    /\ [][(gen \in {"first", "loop"} /\ Len(out') > Len(out)) =>
            /\ pos' > pos
            /\ out' = Append(out, SubSeq(Content, pos + 1, pos'))]_vars
    /\ [][(gen = "created" /\ Len(reads') = Len(reads) + 2 /\ Len(out') > Len(out)) =>
            /\ pos' > 3
            /\ out' = Append(out, SubSeq(Content, 4, pos'))]_vars

\* C11 witness: the second chunk of a stream begins with EF BB BF and was
\* yielded as it was read
C11_Witness ==
    /\ op = "strip_bom_stream"
    /\ chunk_size >= 1
    /\ Len(out) >= 2
    /\ HasBomPrefix(out[2])
    /\ Len(Flatten(out)) = pos

\* C12 as stated: for chunk_size >= 1 every content longer than chunk_size is
\* delivered in more than one chunk.
C12_Original ==
    (Exhausted /\ chunk_size >= 1 /\ Len(Content) > chunk_size) => Len(out) > 1

\* C12 amended: for chunk_size >= 1 a fully consumed stream delivers more than
\* one chunk exactly when the content is longer than the first read,
\* max(3, chunk_size) bytes, and either the first read is not just a BOM
\* (which is stripped to nothing and not delivered) or more than chunk_size
\* bytes follow it.
C12_MultiChunkAmended ==
    (Exhausted /\ chunk_size >= 1) =>
        LET first == Max(3, chunk_size)
            F == SubSeq(Content, 1, Min(first, Len(Content)))
        IN  (Len(out) > 1) <=>
                /\ Len(Content) > first
                /\ (F # <<239, 187, 191>> \/ Len(Content) - first > chunk_size)

\* C12 witness: a BOM read alone was suppressed and the rest still came in
\* two chunks
C12_Witness ==
    /\ Exhausted
    /\ chunk_size >= 1 /\ chunk_size <= 3
    /\ HasBomPrefix(Content)
    /\ Len(out) = 2
    /\ Len(reads) = 4

\* ------------------------------------------------------------------- C14
FileCalled == op = "strip_bom_file" /\ pc = "called"

RECURSIVE Utf8Encode(_)
\* the UTF-8 encoding of a text of code points
Utf8Encode(t) ==
    IF t = <<>> THEN <<>>
    ELSE LET c == Head(t)
             e == CASE c < 128 -> <<c>>
                    [] c >= 128 /\ c < 2048 -> <<192 + (c \div 64), 128 + (c % 64)>>
                    [] c >= 2048 /\ c < 65536 ->
                         <<224 + (c \div 4096), 128 + ((c \div 64) % 64), 128 + (c % 64)>>
                    [] OTHER ->
                         <<240 + (c \div 262144), 128 + ((c \div 4096) % 64),
                           128 + ((c \div 64) % 64), 128 + (c % 64)>>
         IN  e \o Utf8Encode(Tail(t))

\* what strip_bom_file returns for a file that opens: in text mode the
\* decoded text without a leading U+FEFF, in binary mode the bytes without a
\* leading BOM when they are valid UTF-8
FileDispatch ==
    /\ (mode \in {"r", "rt"} /\ heap[1].type = "file" /\ ValidUtf8(heap[1].data)) =>
            /\ exc = "none"
            /\ heap[2].type = "str"
            /\ Utf8Encode(heap[2].data) = heap[1].data
            /\ heap[ret].data = IF HasBomChar(heap[2].data)
                                 THEN Tail(heap[2].data) ELSE heap[2].data
    /\ (mode \in {"r", "rt"} /\ heap[1].type = "file" /\ ~ValidUtf8(heap[1].data)) =>
            exc = "UnicodeDecodeError"
    /\ (mode = "rb" /\ heap[1].type = "file") =>
            /\ exc = "none"
            /\ heap[2] = Obj("bytes", heap[1].data)
            /\ heap[ret].data =
                  IF HasBomPrefix(heap[1].data) /\ ValidUtf8(heap[1].data)
                  THEN SubSeq(heap[1].data, 4, Len(heap[1].data))
                  ELSE heap[1].data

\* C14 as stated: strip_bom_file dispatches on the mode, any other mode raises
\* ValueError, a missing path raises FileNotFoundError and a directory path
\* raises IsADirectoryError
C14_Original ==
    FileCalled =>
        /\ FileDispatch
        /\ mode \notin {"r", "rt", "rb"} => exc = "ValueError"
        /\ heap[1].type = "missing" => exc = "FileNotFoundError"
        /\ heap[1].type = "directory" => exc = "IsADirectoryError"

\* C14 amended: strip_bom_file dispatches on the mode; a mode other than 'r',
\* 'rt', 'rb' raises ValueError whatever the path names, because the mode is
\* tested before the file is opened; with a supported mode a missing path
\* raises FileNotFoundError and a directory path raises IsADirectoryError
C14_FileDispatchAmended ==
    FileCalled =>
        /\ FileDispatch
        /\ mode \notin {"r", "rt", "rb"} => (exc = "ValueError" /\ Len(heap) = 1)
        /\ (mode \in {"r", "rt", "rb"} /\ heap[1].type = "missing") =>
                exc = "FileNotFoundError"
        /\ (mode \in {"r", "rt", "rb"} /\ heap[1].type = "directory") =>
                exc = "IsADirectoryError"

C14_Witness ==
    FileCalled /\ mode = "x" /\ heap[1].type = "missing" /\ exc = "ValueError"

\* ------------------------------------------------------------------- C13
RECURSIVE ChunksAlone(_, _, _, _, _)
\* the chunks a generator over content c with chunk size n produces alone by
\* its reads number i to k, the read number i starting at position p
ChunksAlone(c, n, i, k, p) ==
    IF i > k THEN <<>>
    ELSE LET raw == ReadBytes(c, p, IF i = 1 THEN Max(3, n) ELSE n)
             piece == IF i = 1 /\ HasBomPrefix(raw) /\ ValidUtf8(raw)
                      THEN SubSeq(raw, 4, Len(raw)) ELSE raw
         IN  (IF piece = <<>> THEN <<>> ELSE <<piece>>)
                 \o ChunksAlone(c, n, i + 1, k, p + Len(raw))

RECURSIVE PosAlone(_, _, _, _, _)
\* the position of the source after the reads number i to k
PosAlone(c, n, i, k, p) ==
    IF i > k THEN p
    ELSE PosAlone(c, n, i + 1, k,
                  p + Len(ReadBytes(c, p, IF i = 1 THEN Max(3, n) ELSE n)))

\* generator g is in a state of its run alone: its reads are max(3, n) then n
\* each, and its position and chunks are those of these reads on its own
\* content (the latest read returned nothing if it failed)
RunsAlone(g) ==
    LET c == g.heap[1].data
        n == g.chunk_size
        k == IF g.src_err = "none" THEN Len(g.reads) ELSE Len(g.reads) - 1
    IN  /\ g.reads = [i \in 1 .. Len(g.reads) |-> IF i = 1 THEN Max(3, n) ELSE n]
        /\ g.pos = PosAlone(c, n, 1, k, 0)
        /\ g.out = ChunksAlone(c, n, 1, k, 0)
        /\ g.gen \in {"none", "created"} => g.reads = <<>>

\* C13: two generators of strip_bom_stream over two distinct sources, pulled in
\* any interleaving, each issue the reads and produce the chunks of their run
\* alone
C13_Independence == g2.id # 0 => (RunsAlone(Active) /\ RunsAlone(g2))

\* the same in a run with one generator only
RunsAloneSingle ==
    (op = "strip_bom_stream" /\ heap[1].type = "BytesIO" /\ chunk_size >= 1)
        => RunsAlone(Active)

C13_Witness ==
    /\ g2.id = 1
    /\ g2.gen = "first" /\ Len(g2.out) = 1
    /\ gen = "loop" /\ Len(out) = 2
    /\ g2.heap # heap

\* ------------------------------------------------------------------- C15
\* C15 as stated: every pull that returns a chunk has issued exactly one read
\* on the source
C15_Original ==
    [][Len(out') = Len(out) + 1 => Len(reads') = Len(reads) + 1]_vars

\* C15 amended: creating the sequence issues no read, reads are issued only
\* while a pull is in progress, and a pull that returns a chunk has issued one
\* read, except the first pull when the first read returned just the BOM: that
\* chunk is stripped to nothing and not delivered, and the pull has issued a
\* second read
C15_ReadsPerChunkAmended ==
    /\ [][pc = "start" => reads' = reads]_vars
    /\ [][reads' # reads =>
            /\ pc = "called" /\ gen \in {"created", "first", "loop"}
            /\ last' \in {"chunk", "stop", "raise"}]_vars
    /\ [][Len(out') = Len(out) + 1 =>
            Len(reads') = Len(reads) +
                (IF gen = "created" /\ ReadBytes(Content, 0, Max(3, chunk_size)) = <<239, 187, 191>>
                 THEN 2 ELSE 1)]_vars

C15_Witness ==
    /\ op = "strip_bom_stream" /\ gen = "loop" /\ last = "chunk"
    /\ Len(out) = 1 /\ Len(reads) = 2
    /\ pos > 3

\* ------------------------------------------------------------------- C16
\* C16: for a content b that begins with EF BB BF and is valid UTF-8 as a
\* whole, if the first read of max(3, chunk_size) bytes is invalid UTF-8 alone
\* then the concatenated output of strip_bom_stream is b, BOM included, while
\* strip_bom_buffer(b) is b[3:]; this needs chunk_size > 3, and with
\* chunk_size <= 3 the first read is valid and the BOM is stripped
C16_BoundaryLimitation ==
    (Exhausted /\ HasBomPrefix(Content) /\ ValidUtf8(Content)) =>
        LET F == ReadBytes(Content, 0, Max(3, chunk_size))
            whole == strip_bom_buffer(<<Obj("bytes", Content)>>, 1)
        IN  /\ ~ValidUtf8(F) =>
                  /\ chunk_size > 3
                  /\ Flatten(out) = Content
                  /\ whole.heap[whole.ret].data = SubSeq(Content, 4, Len(Content))
            /\ chunk_size <= 3 =>
                  /\ ValidUtf8(F)
                  /\ Flatten(out) = SubSeq(Content, 4, pos)

C16_Witness ==
    /\ Exhausted /\ chunk_size = 4
    /\ HasBomPrefix(Content) /\ ValidUtf8(Content)
    /\ ~ValidUtf8(ReadBytes(Content, 0, 4))
    /\ HasBomPrefix(Flatten(out))

\* ------------------------------------------------------------------- C17
\* C17: the first read request has size max(3, chunk_size), it is made by the
\* first pull and is the only read of the first chunk, and every later read
\* request has size chunk_size
C17_ReadSizes ==
    /\ [](\A i \in 1 .. Len(reads) :
            reads[i] = IF i = 1 THEN Max(3, chunk_size) ELSE chunk_size)
    /\ [][reads = <<>> /\ reads' # <<>> => gen = "created"]_vars
    /\ [][gen # "created" /\ reads' # reads =>
            reads' = Append(reads, chunk_size)]_vars

C17_Witness ==
    op = "strip_bom_stream" /\ chunk_size = 1 /\ reads = <<3, 1, 1>> /\ Len(out) = 3

\* ------------------------------------------------------------------- C18
\* the output of a fully consumed stream holds every byte of the source but a
\* stripped leading BOM
DataComplete ==
    LET F == ReadBytes(Content, 0, Max(3, chunk_size))
    IN  Flatten(out) = IF HasBomPrefix(F) /\ ValidUtf8(F)
                       THEN SubSeq(Content, 4, Len(Content))
                       ELSE Content

\* C18: for every integer chunk_size, 0 and negative values included, the
\* concatenated output of a fully consumed stream contains every source byte
\* except a stripped leading BOM
C18_DataCompleteEveryChunkSize == Exhausted => DataComplete

\* the same without chunk_size 0, where read(0) returns nothing and the loop
\* ends after the first read
DataCompleteNonZero == (Exhausted /\ chunk_size # 0) => DataComplete

\* ------------------------------------------------------------------- C20
\* C20: the chunk sequence ends exactly at the first read that returns zero
\* bytes, a short non-empty read is emitted as a chunk and the generator stays
\* suspended in the loop; a first read of zero bytes ends the sequence with no
\* chunk after one read; and a finished generator, ended by exhaustion or by
\* a read failure, never reads or produces again
C20_EndOfSequence ==
    /\ [][(gen \in {"first", "loop"} /\ reads' # reads /\ src_err' = "none") =>
            IF pos' = pos
            THEN gen' = "done" /\ last' = "stop" /\ out' = out
            ELSE /\ gen' = "loop" /\ last' = "chunk"
                 /\ out' = Append(out, SubSeq(Content, pos + 1, pos'))]_vars
    /\ [][(gen = "created" /\ reads' # reads /\ src_err' = "none") =>
            IF pos' = pos
            THEN /\ gen' = "done" /\ last' = "stop"
                 /\ out' = <<>> /\ Len(reads') = 1
            ELSE gen' = "done" =>
                    /\ last' = "stop" /\ Len(reads') = 2
                    /\ ReadBytes(Content, pos', chunk_size) = <<>>]_vars
    /\ [](Exhausted => ReadBytes(Content, pos, reads[Len(reads)]) = <<>>)
    /\ [][gen = "done" =>
            /\ gen' = "done"
            /\ reads' = reads /\ pos' = pos /\ out' = out]_vars

C20_Witness ==
    /\ Exhausted /\ chunk_size = 2
    /\ reads = <<3, 2, 2>>
    /\ Len(out) = 2 /\ Len(out[2]) = 1

\* ------------------------------------------------------------------- C19
\* C19: for every finite source whose reads return zero bytes only at the end
\* of the data and every chunk_size >= 1, repeated pulling reaches the end of
\* the sequence after at most one pull per source byte and one more, and then
\* every byte of the source has been read
C19_Termination ==
    /\ (gen = "created" /\ chunk_size >= 1) ~> Exhausted
    /\ []((Exhausted /\ chunk_size >= 1) => pos = Len(Content))
    /\ [](chunk_size >= 1 => Len(reads) <= Len(Content) + 1)

C19_Witness ==
    /\ Exhausted /\ chunk_size = 1
    /\ Len(Content) = MaxLive /\ pos = MaxLive
    /\ Len(reads) = MaxLive - 1

\* ------------------------------------------------------------------- C21
\* C21: every chunk strip_bom_stream produces is non-empty, a first read of
\* exactly the BOM produces no chunk, and for chunk_size >= 1 the first chunk
\* has at most max(3, chunk_size) bytes and every later chunk at most
\* chunk_size bytes
C21_ChunkInvariant ==
    op = "strip_bom_stream" =>
        /\ \A i \in 1 .. Len(out) : Len(out[i]) >= 1
        /\ (reads # <<>> /\ ReadBytes(Content, 0, Max(3, chunk_size)) = <<239, 187, 191>>) =>
                Len(out) < Len(reads)
        /\ chunk_size >= 1 =>
                \A i \in 1 .. Len(out) :
                    Len(out[i]) <= IF i = 1 THEN Max(3, chunk_size) ELSE chunk_size

C21_Witness ==
    /\ Exhausted /\ chunk_size = 2
    /\ ReadBytes(Content, 0, 3) = <<239, 187, 191>>
    /\ Len(out) = 2 /\ Len(out[1]) = 2 /\ Len(out[2]) = 1
    /\ reads = <<3, 2, 2, 2>>

====
